---- MODULE Spec2Model ----
(***************************************************************************)
(* The keyword filter of mbkizil/cssm501: filtering.py (one sequential      *)
(* loop) and filtering_parallel.py (a worker pool and one collector).       *)
(*                                                                         *)
(* A Python str is modelled as a sequence of one-character strings, so      *)
(* that strip, split, lower, `in`, ast.literal_eval, json.loads and         *)
(* json.dumps are computed character by character.  A character outside     *)
(* printable ASCII is written by its code point, "U+00FC" for u-umlaut,     *)
(* and so is the backquote, "U+0060", which a TLA+ string cannot hold.      *)
(***************************************************************************)
EXTENDS Integers, Sequences, FiniteSets, TLC

(***************************************************************************)
(* Bounds of the model.                                                    *)
(***************************************************************************)
\* the longest input file, in lines
MaxLines == 3
\* Pool(12), scaled down: the number of worker processes
NumWorkers == 2
\* imap_unordered(..., chunksize=32), scaled down: lines per task
chunksize == 2
\* the most elements of a keyword list drawn as an input of the normalizer
MaxElems == 2
\* the most characters the elements of such a list take together
MaxChars == 4

(***************************************************************************)
(* Python's str methods.                                                   *)
(***************************************************************************)
\* the characters str.isspace() holds of: what strip() and split() remove
Whitespace ==
    { "\t", "\n", "U+000B", "\f", "\r", "U+001C", "U+001D",
      "U+001E", "U+001F", " ", "U+0085", "U+00A0", "U+1680", "U+2000",
      "U+2001", "U+2002", "U+2003", "U+2004", "U+2005", "U+2006", "U+2007",
      "U+2008", "U+2009", "U+200A", "U+2028", "U+2029", "U+202F", "U+205F",
      "U+3000" }

\* string.punctuation
punctuation ==
    { "!", "\"", "#", "$", "%", "&", "'", "(", ")", "*", "+",
      ",", "-", ".", "/", ":", ";", "<", "=", ">", "?", "@",
      "[", "\\", "]", "^", "_", "U+0060", "{", "|", "}", "~" }

UpperAscii ==
    <<"A", "B", "C", "D", "E", "F", "G", "H", "I", "J", "K", "L", "M",
      "N", "O", "P", "Q", "R", "S", "T", "U", "V", "W", "X", "Y", "Z">>

LowerAscii ==
    <<"a", "b", "c", "d", "e", "f", "g", "h", "i", "j", "k", "l", "m",
      "n", "o", "p", "q", "r", "s", "t", "u", "v", "w", "x", "y", "z">>

\* str.lower() of one character: a string, since U+0130 (capital dotted I,
\* the first letter of one literal of islam_keywords) lowers to two
\* characters, i and the combining dot U+0307.
lower_char(c) ==
    IF \E i \in 1..26 : UpperAscii[i] = c
    THEN <<LowerAscii[CHOOSE i \in 1..26 : UpperAscii[i] = c]>>
    ELSE IF c = "U+0130" THEN <<"i", "U+0307">>
    ELSE IF c = "U+00DC" THEN <<"U+00FC">>
    ELSE IF c = "U+00D6" THEN <<"U+00F6">>
    ELSE IF c = "U+00C7" THEN <<"U+00E7">>
    ELSE IF c = "U+015E" THEN <<"U+015F">>
    ELSE IF c = "U+011E" THEN <<"U+011F">>
    ELSE <<c>>

RECURSIVE lower(_)
\* s.lower()
lower(s) ==
    IF s = <<>> THEN <<>> ELSE lower_char(Head(s)) \o lower(Tail(s))

RECURSIVE lstrip(_, _)
\* s.lstrip(chars)
lstrip(s, chars) ==
    IF s # <<>> /\ Head(s) \in chars THEN lstrip(Tail(s), chars) ELSE s

RECURSIVE rstrip(_, _)
\* s.rstrip(chars)
rstrip(s, chars) ==
    IF s # <<>> /\ s[Len(s)] \in chars
    THEN rstrip(SubSeq(s, 1, Len(s) - 1), chars)
    ELSE s

\* s.strip(chars); s.strip() is strip(s, Whitespace)
strip(s, chars) == rstrip(lstrip(s, chars), chars)

RECURSIVE split_from(_, _, _)
\* s.split(): the maximal runs of non-whitespace characters, in order.
\* cur is the run being read, acc the runs already closed.
split_from(s, cur, acc) ==
    IF s = <<>>
    THEN IF cur = <<>> THEN acc ELSE Append(acc, cur)
    ELSE IF Head(s) \in Whitespace
         THEN split_from(Tail(s), <<>>,
                         IF cur = <<>> THEN acc ELSE Append(acc, cur))
         ELSE split_from(Tail(s), Append(cur, Head(s)), acc)

split(s) == split_from(s, <<>>, <<>>)

\* `sub in s` of two str: sub occurs in s as a contiguous substring
str_contains(s, sub) ==
    \E i \in 0..(Len(s) - Len(sub)) : SubSeq(s, i + 1, i + Len(sub)) = sub

\* `x in l` of a list of str
list_contains(l, x) == \E i \in 1..Len(l) : l[i] = x

(***************************************************************************)
(* The two keyword sets, as each script defines them.                      *)
(***************************************************************************)
\* kurdish_keywords of filtering.py (lines 55-100): 39 distinct literals.
kurdish_keywords_filtering ==
    { <<"k", "U+00FC", "r", "t">>,
      <<"k", "U+00FC", "r", "t", "l", "e", "r">>,
      <<"h", "a", "d", "e", "p">>,
      <<"h", "d", "p">>,
      <<"b", "d", "p">>,
      <<"y", "s", "p">>,
      <<"d", "e", "m">>,
      <<"d", "e", "m", "o", "k", "r", "a", "t", "i", "k", " ", "i", "s", "l", "a", "m", " ", "k", "o", "n", "g", "r", "e", "s", "i">>,
      <<"s", "i", "v", "i", "l", " ", "c", "u", "m", "a">>,
      <<"U+00F6", "z", "e", "r", "k", "l", "i", "k">>,
      <<"b", "a", "r", "z", "a", "n", "i">>,
      <<"t", "a", "l", "a", "b", "a", "n", "i">>,
      <<"r", "o", "j", "a", "v", "a">>,
      <<"k", "o", "b", "a", "n", "e">>,
      <<"k", "o", "b", "a", "n", "i">>,
      <<"k", "d", "p">>,
      <<"y", "n", "k">>,
      <<"y", "p", "g">>,
      <<"t", "e", "r", "U+00F6", "r", "i", "s", "t">>,
      <<"e", "r", "m", "e", "n", "i">>,
      <<"s", "U+00FC", "r", "y", "a", "n", "i">>,
      <<"k", "U+00FC", "r", "t", " ", "s", "o", "r", "u", "n", "u">>,
      <<"s", "e", "l", "a", "h", "a", "t", "t", "i", "n", " ", "d", "e", "m", "i", "r", "t", "a", "U+015F">>,
      <<"a", "p", "o">>,
      <<"s", "e", "l", "o">>,
      <<"U+00F6", "c", "a", "l", "a", "n">>,
      <<"k", "u", "r", "d">>,
      <<"K", "u", "r", "d">>,
      <<"k", "u", "r", "d", "i", "s", "h">>,
      <<"p", "k", "k">>,
      <<"k", "c", "k">>,
      <<"k", "U+00FC", "r", "d", "i", "s", "t", "a", "n">>,
      <<"b", "U+00F6", "l", "U+00FC", "c", "U+00FC", "l", "U+00FC", "k">>,
      <<"U+015F", "e", "y", "h", " ", "s", "a", "i", "t">>,
      <<"U+015F", "e", "y", "h", " ", "s", "a", "i", "d">>,
      <<"t", "e", "r", "U+00F6", "r", " ", "U+00F6", "r", "g", "U+00FC", "t", "U+00FC">>,
      <<"t", "e", "r", "U+00F6", "r", " ", "p", "r", "o", "p", "o", "g", "a", "n", "d", "a", "s", "U+0131">>,
      <<"k", "a", "n", "d", "i", "l">>,
      <<"v", "a", "t", "a", "n", "s", "U+0131", "z">> }

\* islam_keywords of filtering.py (lines 102-131): 25 distinct literals.
islam_keywords_filtering ==
    { <<"i", "s", "l", "a", "m">>,
      <<"m", "U+00FC", "s", "l", "U+00FC", "m", "a", "n">>,
      <<"m", "u", "s", "l", "u", "m", "a", "n">>,
      <<"d", "i", "n">>,
      <<"d", "i", "n", "s", "i", "z">>,
      <<"d", "i", "n", "d", "a", "r">>,
      <<"i", "s", "l", "a", "m", "c", "U+0131">>,
      <<"m", "U+00FC", "s", "l", "U+00FC", "m", "a", "n", "l", "a", "r">>,
      <<"U+00FC", "m", "m", "e", "t">>,
      <<"s", "e", "k", "U+00FC", "l", "e", "r">>,
      <<"U+015F", "e", "r", "i", "a", "t">>,
      <<"m", "U+00FC", "s", "l", "U+00FC", "m", "a", "n", "U+0131", "z">>,
      <<"d", "i", "n", "i", "m", "i", "z", " ", "b", "i", "r">>,
      <<"d", "i", "n", "i", "m", "i", "z", "d", "e", "n", " ", "u", "z", "a", "k">>,
      <<"h", "e", "p", "i", "m", "i", "z", " ", "m", "U+00FC", "s", "l", "U+00FC", "m", "a", "n">>,
      <<"g", "e", "r", "U+00E7", "e", "k", " ", "m", "U+00FC", "s", "l", "U+00FC", "m", "a", "n">>,
      <<"g", "e", "r", "U+00E7", "e", "k", " ", "i", "s", "l", "a", "m">>,
      <<"i", "s", "l", "a", "m", "U+0131", " ", "s", "a", "t", "a", "n", "l", "a", "r">>,
      <<"i", "s", "l", "a", "m", " ", "d", "U+00FC", "U+015F", "m", "a", "n", "U+0131">>,
      <<"k", "a", "f", "i", "r">>,
      <<"d", "i", "n", "i", "m", "i", "z", "d", "e", "n">>,
      <<"a", "l", "l", "a", "h", "s", "U+0131", "z">>,
      <<"a", "t", "e", "i", "s", "t">>,
      <<"U+015F", "e", "y", "h">>,
      <<"m", "o", "l", "l", "a">> }

\* kurdish_keywords of filtering_parallel.py (lines 60-116): 47 distinct literals.
\* Adjacent string literals without a comma are one literal in Python:
\* "teror" "kandil" is terorkandil, and so on.
kurdish_keywords_parallel ==
    { <<"k", "U+00FC", "r", "t">>,
      <<"k", "U+00FC", "r", "t", "l", "e", "r">>,
      <<"h", "a", "d", "e", "p">>,
      <<"h", "d", "p">>,
      <<"b", "d", "p">>,
      <<"y", "s", "p">>,
      <<"d", "e", "m">>,
      <<"d", "e", "m", "o", "k", "r", "a", "t", "i", "k", " ", "i", "s", "l", "a", "m", " ", "k", "o", "n", "g", "r", "e", "s", "i">>,
      <<"s", "i", "v", "i", "l", " ", "c", "u", "m", "a">>,
      <<"U+00F6", "z", "e", "r", "k", "l", "i", "k">>,
      <<"b", "a", "r", "z", "a", "n", "i">>,
      <<"t", "a", "l", "a", "b", "a", "n", "i">>,
      <<"r", "o", "j", "a", "v", "a">>,
      <<"k", "o", "b", "a", "n", "e">>,
      <<"k", "o", "b", "a", "n", "i">>,
      <<"k", "d", "p">>,
      <<"y", "n", "k">>,
      <<"y", "p", "g">>,
      <<"t", "e", "r", "U+00F6", "r", "i", "s", "t">>,
      <<"e", "r", "m", "e", "n", "i">>,
      <<"s", "U+00FC", "r", "y", "a", "n", "i">>,
      <<"k", "U+00FC", "r", "t", " ", "s", "o", "r", "u", "n", "u">>,
      <<"s", "e", "l", "a", "h", "a", "t", "t", "i", "n", " ", "d", "e", "m", "i", "r", "t", "a", "U+015F">>,
      <<"a", "p", "o">>,
      <<"s", "e", "l", "o">>,
      <<"U+00F6", "c", "a", "l", "a", "n">>,
      <<"k", "u", "r", "d">>,
      <<"K", "u", "r", "d">>,
      <<"k", "u", "r", "d", "i", "s", "h">>,
      <<"p", "k", "k">>,
      <<"k", "c", "k">>,
      <<"k", "U+00FC", "r", "d", "i", "s", "t", "a", "n">>,
      <<"b", "U+00F6", "l", "U+00FC", "c", "U+00FC", "l", "U+00FC", "k">>,
      <<"U+015F", "e", "y", "h", " ", "s", "a", "i", "t">>,
      <<"U+015F", "e", "y", "h", " ", "s", "a", "i", "d">>,
      <<"t", "e", "r", "U+00F6", "r", " ", "U+00F6", "r", "g", "U+00FC", "t", "U+00FC">>,
      <<"t", "e", "r", "U+00F6", "r", " ", "p", "r", "o", "p", "o", "g", "a", "n", "d", "a", "s", "U+0131">>,
      <<"t", "e", "r", "U+00F6", "r", "k", "a", "n", "d", "i", "l">>,
      <<"v", "a", "t", "a", "n", "s", "U+0131", "z">>,
      <<"k", "U+00FC", "r", "d", "i", "s", "t", "a", "n", "l", "U+0131">>,
      <<"d", "i", "r", "e", "n", "i", "U+015F", "i", "r", "o", "j", "a", "v", "a">>,
      <<"d", "e", "v", "r", "i", "m", "i", "t", "e", "r", "U+00F6", "r", "l", "e">>,
      <<"m", "U+00FC", "c", "a", "d", "e", "l", "e">>,
      <<"k", "U+00FC", "r", "d">>,
      <<"t", "e", "r", "U+00F6", "r", "i", "z", "m">>,
      <<"i", "l", "i", "U+015F", "k", "i", "s", "i">>,
      <<"k", "U+00FC", "r", "t", " ", "s", "i", "y", "a", "s", "e", "t", "i">> }

\* islam_keywords of filtering_parallel.py (lines 118-213): 66 distinct literals.
islam_keywords_parallel ==
    { <<"i", "s", "l", "a", "m">>,
      <<"m", "U+00FC", "s", "l", "U+00FC", "m", "a", "n">>,
      <<"m", "u", "s", "l", "u", "m", "a", "n">>,
      <<"d", "i", "n">>,
      <<"d", "i", "n", "s", "i", "z">>,
      <<"d", "i", "n", "d", "a", "r">>,
      <<"i", "s", "l", "a", "m", "c", "U+0131">>,
      <<"m", "U+00FC", "s", "l", "U+00FC", "m", "a", "n", "l", "a", "r">>,
      <<"U+00FC", "m", "m", "e", "t">>,
      <<"s", "e", "k", "U+00FC", "l", "e", "r">>,
      <<"U+015F", "e", "r", "i", "a", "t">>,
      <<"m", "U+00FC", "s", "l", "U+00FC", "m", "a", "n", "U+0131", "z">>,
      <<"d", "i", "n", "i", "m", "i", "z", " ", "b", "i", "r">>,
      <<"d", "i", "n", "i", "m", "i", "z", "d", "e", "n", " ", "u", "z", "a", "k">>,
      <<"h", "e", "p", "i", "m", "i", "z", " ", "m", "U+00FC", "s", "l", "U+00FC", "m", "a", "n">>,
      <<"g", "e", "r", "U+00E7", "e", "k", " ", "m", "U+00FC", "s", "l", "U+00FC", "m", "a", "n">>,
      <<"g", "e", "r", "U+00E7", "e", "k", " ", "i", "s", "l", "a", "m">>,
      <<"i", "s", "l", "a", "m", "U+0131", " ", "s", "a", "t", "a", "n", "l", "a", "r">>,
      <<"i", "s", "l", "a", "m", " ", "d", "U+00FC", "U+015F", "m", "a", "n", "U+0131">>,
      <<"k", "a", "f", "i", "r">>,
      <<"d", "i", "n", "i", "m", "i", "z", "d", "e", "n">>,
      <<"a", "l", "l", "a", "h", "s", "U+0131", "z">>,
      <<"a", "t", "e", "i", "s", "t">>,
      <<"U+015F", "e", "y", "h">>,
      <<"m", "o", "l", "l", "a">>,
      <<"U+0130", "s", "l", "a", "m">>,
      <<"m", "o", "s", "l", "e", "m">>,
      <<"m", "u", "s", "e", "l", "m", "a", "n">>,
      <<"m", "U+00FC", "s", "l", "U+00FC", "m">>,
      <<"d", "i", "n", "n">>,
      <<"d", "i", "n", "i", "m">>,
      <<"d", "i", "n", "s", "i", "z", "z">>,
      <<"d", "i", "n", "d", "a", "r", "r">>,
      <<"i", "s", "l", "a", "m", "c", "U+0131", "l">>,
      <<"m", "U+00FC", "s", "l", "i", "m", "a", "n", "l", "a", "r">>,
      <<"U+00FC", "m", "m", "e", "t", "t">>,
      <<"U+00FC", "m", "m", "e">>,
      <<"s", "e", "k", "u", "l", "e", "r">>,
      <<"s", "e", "c", "u", "l", "a", "r">>,
      <<"U+015F", "e", "r", "i", "a", "a", "t">>,
      <<"m", "U+00FC", "s", "l", "U+00FC", "m", "U+00FC", "n", "U+00FC", "z">>,
      <<"h", "e", "p", "i", "m", "i", "z", " ", "m", "u", "s", "l", "u", "m", "a", "n">>,
      <<"k", "a", "f", "e", "r">>,
      <<"a", "t", "e", "U+0131", "s", "t">>,
      <<"U+015F", "e", "y", "y", "h">>,
      <<"m", "o", "l", "l", "a", "a">>,
      <<"i", "m", "a", "m">>,
      <<"h", "o", "c", "a">>,
      <<"h", "o", "c", "a", "a">>,
      <<"k", "u", "r", "a", "n">>,
      <<"k", "u", "r", "'", "a", "n">>,
      <<"q", "u", "r", "a", "n">>,
      <<"p", "e", "y", "g", "a", "m", "b", "e", "r">>,
      <<"p", "e", "y", "g", "a", "m", "a", "b", "e", "r">>,
      <<"p", "b", "u", "h">>,
      <<"s", "a", "v">>,
      <<"a", "l", "l", "a", "h">>,
      <<"a", "l", "l", "l", "a", "h">>,
      <<"a", "l", "l", "a", "a", "a", "h">>,
      <<"c", "c">>,
      <<"c", ".", "c", ".">>,
      <<"i", "n", "U+015F", "a", "l", "l", "a", "h">>,
      <<"i", "n", "U+015F">>,
      <<"m", "a", "U+015F", "a", "l", "l", "a", "h">>,
      <<"m", "a", "U+015F">>,
      <<"m", "a", "s", "h", "a", "l", "l", "a", "h">> }


\* the set a script tests the Kurdish-issue literals of
kurdish_keywords(script) ==
    IF script = "filtering" THEN kurdish_keywords_filtering
    ELSE kurdish_keywords_parallel

\* the set a script tests the Islam literals of
islam_keywords(script) ==
    IF script = "filtering" THEN islam_keywords_filtering
    ELSE islam_keywords_parallel

(***************************************************************************)
(* Python values: what json.loads and ast.literal_eval return.             *)
(***************************************************************************)
PyNone == [t |-> "NoneType"]
PyBool(b) == [t |-> "bool", b |-> b]
PyInt(n) == [t |-> "int", n |-> n]
PyStr(s) == [t |-> "str", s |-> s]
PyList(xs) == [t |-> "list", xs |-> xs]
PyTuple(xs) == [t |-> "tuple", xs |-> xs]
\* a dict, as the sequence of its <<key, value>> items in insertion order
PyDict(kv) == [t |-> "dict", kv |-> kv]

Digits == <<"0", "1", "2", "3", "4", "5", "6", "7", "8", "9">>

IsDigit(c) == \E d \in 1..10 : Digits[d] = c

DigitValue(c) == (CHOOSE d \in 1..10 : Digits[d] = c) - 1

RECURSIVE nat_str(_)
\* str(n) of an int n >= 0
nat_str(n) ==
    IF n < 10 THEN <<Digits[n + 1]>>
    ELSE Append(nat_str(n \div 10), Digits[(n % 10) + 1])

\* str(n) of an int
int_str(n) == IF n < 0 THEN <<"-">> \o nat_str(-n) ELSE nat_str(n)

RECURSIVE repr_chars(_, _)
\* the body of repr(s) of a str quoted by q: the backslash, the quote and
\* the line breaks escaped
repr_chars(s, q) ==
    IF s = <<>> THEN <<>>
    ELSE LET c == Head(s)
             e == IF c = "\\" THEN <<"\\", "\\">>
                  ELSE IF c = q THEN <<"\\", q>>
                  ELSE IF c = "\n" THEN <<"\\", "n">>
                  ELSE IF c = "\r" THEN <<"\\", "r">>
                  ELSE IF c = "\t" THEN <<"\\", "t">>
                  ELSE <<c>>
         IN  e \o repr_chars(Tail(s), q)

\* repr(s) of a str: single quotes, unless s holds a single quote and no
\* double quote
str_repr(s) ==
    LET q == IF (\E i \in 1..Len(s) : s[i] = "'")
                /\ ~(\E i \in 1..Len(s) : s[i] = "\"")
             THEN "\"" ELSE "'"
    IN  <<q>> \o repr_chars(s, q) \o <<q>>

RECURSIVE py_repr(_)
RECURSIVE repr_join(_)
\* repr(v)
py_repr(v) ==
    CASE v.t = "NoneType" -> <<"N", "o", "n", "e">>
      [] v.t = "bool" -> IF v.b THEN <<"T", "r", "u", "e">>
                         ELSE <<"F", "a", "l", "s", "e">>
      [] v.t = "int" -> int_str(v.n)
      [] v.t = "str" -> str_repr(v.s)
      [] v.t = "list" -> <<"[">> \o repr_join(v.xs) \o <<"]">>
      [] v.t = "tuple" ->
            IF Len(v.xs) = 1 THEN <<"(">> \o py_repr(v.xs[1]) \o <<",", ")">>
            ELSE <<"(">> \o repr_join(v.xs) \o <<")">>

\* ", ".join(repr(x) for x in xs)
repr_join(xs) ==
    IF xs = <<>> THEN <<>>
    ELSE IF Len(xs) = 1 THEN py_repr(xs[1])
    ELSE py_repr(xs[1]) \o <<",", " ">> \o repr_join(Tail(xs))

\* str(v): a str is itself, anything else prints as its repr
py_str(v) == IF v.t = "str" THEN v.s ELSE py_repr(v)

(***************************************************************************)
(* ast.literal_eval, for the literal syntax the model's inputs use:        *)
(* quoted strings (adjacent ones concatenated), decimal integers, None,    *)
(* True, False, lists, tuples with or without parentheses, parenthesised   *)
(* values.  A parser step returns [ok, v, i]: whether it parsed, the value  *)
(* and the index after it; ok = FALSE is the exception literal_eval raises *)
(* (SyntaxError or ValueError, which the caller does not tell apart).      *)
(* The result of a step is bound as the argument of a local operator,      *)
(* LET With(r) == ... IN With(step), which reads "with r = step".          *)
(***************************************************************************)
Parsed(v, i) == [ok |-> TRUE, v |-> v, i |-> i]

ParseError == [ok |-> FALSE, v |-> PyNone, i |-> 0]

\* the character at index i, "" past the end
At(s, i) == IF i >= 1 /\ i <= Len(s) THEN s[i] ELSE ""

\* whether the characters of word stand at index i
StartsAt(s, i, word) ==
    i + Len(word) - 1 <= Len(s) /\ SubSeq(s, i, i + Len(word) - 1) = word

RECURSIVE skip_blank(_, _, _)
\* the index of the first character from i on that is not in blanks
skip_blank(s, i, blanks) ==
    IF At(s, i) \in blanks THEN skip_blank(s, i + 1, blanks) ELSE i

\* the blanks between the tokens of a Python expression
PyBlank == {" ", "\t", "\f"}

RECURSIVE py_string_body(_, _, _, _)
\* the rest of a string literal quoted by q, from index i; acc is the value
\* read so far
py_string_body(s, i, q, acc) ==
    LET c == At(s, i) IN
    IF c = "" \/ c = "\n" THEN ParseError
    ELSE IF c = q THEN Parsed(PyStr(acc), i + 1)
    ELSE IF c = "\\"
         THEN LET d == At(s, i + 1) IN
              IF d = "" THEN ParseError
              ELSE IF d \in {"\\", "'", "\""}
                   THEN py_string_body(s, i + 2, q, Append(acc, d))
              ELSE IF d = "n" THEN py_string_body(s, i + 2, q, Append(acc, "\n"))
              ELSE IF d = "t" THEN py_string_body(s, i + 2, q, Append(acc, "\t"))
              ELSE IF d = "r" THEN py_string_body(s, i + 2, q, Append(acc, "\r"))
              ELSE py_string_body(s, i + 2, q, acc \o <<c, d>>)
    ELSE py_string_body(s, i + 1, q, Append(acc, c))

RECURSIVE py_strings(_, _, _)
\* one or more adjacent string literals from index i: Python concatenates
\* them.  acc is the value of the literals already read.
py_strings(s, i, acc) ==
    LET More(r, j) ==
            IF At(s, j) \in {"'", "\""}
            THEN py_strings(s, j, acc \o r.v.s)
            ELSE Parsed(PyStr(acc \o r.v.s), r.i)
        With(r) ==
            IF ~r.ok THEN ParseError
            ELSE More(r, skip_blank(s, r.i, PyBlank))
    IN  With(py_string_body(s, i + 1, At(s, i), <<>>))

RECURSIVE py_digits(_, _, _)
\* the decimal digits from index i on; n is the value read so far
py_digits(s, i, n) ==
    IF IsDigit(At(s, i)) THEN py_digits(s, i + 1, 10 * n + DigitValue(At(s, i)))
    ELSE Parsed(PyInt(n), i)

\* a decimal integer at index i: a nonzero one may not start with 0
py_number(s, i) ==
    LET With(r) == IF At(s, i) = "0" /\ r.v.n # 0 THEN ParseError ELSE r
    IN  With(py_digits(s, i, 0))

IsNameChar(c) ==
    \/ IsDigit(c)
    \/ c = "_"
    \/ \E k \in 1..26 : c = UpperAscii[k] \/ c = LowerAscii[k]

\* the keyword word at index i, standing for value v
py_keyword(s, i, word, v) ==
    IF IsNameChar(At(s, i + Len(word))) THEN ParseError
    ELSE Parsed(v, i + Len(word))

RECURSIVE py_atom(_, _)
RECURSIVE py_items(_, _, _, _, _)

\* one value at index i
py_atom(s, i) ==
    LET AsList(r) == IF r.ok THEN Parsed(PyList(r.v.xs), r.i) ELSE ParseError
        \* (x) is x; (x,) and (x, y) and () are tuples
        AsTuple(r) ==
            IF ~r.ok THEN ParseError
            ELSE IF Len(r.v.xs) = 1 /\ ~r.v.comma THEN Parsed(r.v.xs[1], r.i)
            ELSE Parsed(PyTuple(r.v.xs), r.i)
        c == At(s, i)
    IN
    IF c \in {"'", "\""} THEN
        IF StartsAt(s, i, <<c, c, c>>) THEN ParseError  \* triple-quoted: not modelled
        ELSE py_strings(s, i, <<>>)
    ELSE IF IsDigit(c) THEN py_number(s, i)
    ELSE IF StartsAt(s, i, <<"N", "o", "n", "e">>)
         THEN py_keyword(s, i, <<"N", "o", "n", "e">>, PyNone)
    ELSE IF StartsAt(s, i, <<"T", "r", "u", "e">>)
         THEN py_keyword(s, i, <<"T", "r", "u", "e">>, PyBool(TRUE))
    ELSE IF StartsAt(s, i, <<"F", "a", "l", "s", "e">>)
         THEN py_keyword(s, i, <<"F", "a", "l", "s", "e">>, PyBool(FALSE))
    ELSE IF c = "[" THEN AsList(py_items(s, i + 1, "]", <<>>, FALSE))
    ELSE IF c = "(" THEN AsTuple(py_items(s, i + 1, ")", <<>>, FALSE))
    ELSE ParseError

\* comma-separated values from index i up to the closing character (""
\* for the end of the string); a trailing comma is allowed.  acc holds the
\* values read, comma whether a comma was read.  Returns the values and
\* comma in v.
py_items(s, i, close, acc, comma) ==
    LET blanks == IF close = "" THEN PyBlank ELSE PyBlank \cup {"\n", "\r"}
        After(k) == IF close = "" THEN k ELSE k + 1
        Sep(r, k) ==
            IF At(s, k) = ","
            THEN py_items(s, k + 1, close, Append(acc, r.v), TRUE)
            ELSE IF At(s, k) = close
                 THEN Parsed([xs |-> Append(acc, r.v), comma |-> comma],
                             After(k))
            ELSE ParseError
        Item(r) ==
            IF ~r.ok THEN ParseError ELSE Sep(r, skip_blank(s, r.i, blanks))
        From(j) ==
            IF At(s, j) = close
            THEN Parsed([xs |-> acc, comma |-> comma], After(j))
            ELSE Item(py_atom(s, j))
    IN  From(skip_blank(s, i, blanks))

\* ast.literal_eval(s): [ok, v]; ok = FALSE when it raises
literal_eval(s) ==
    LET With(r) ==
            IF ~r.ok \/ r.v.xs = <<>> THEN ParseError
            ELSE IF Len(r.v.xs) = 1 /\ ~r.v.comma THEN Parsed(r.v.xs[1], r.i)
            ELSE Parsed(PyTuple(r.v.xs), r.i)
    IN  With(py_items(s, skip_blank(s, 1, {" ", "\t"}), "", <<>>, FALSE))

(***************************************************************************)
(* The Field Normalizer.  A call returns [exc, ret]: the exception that    *)
(* propagates to the caller ("" for none) and the value returned.          *)
(***************************************************************************)
Return(v) == [exc |-> "", ret |-> v]

Raise(e) == [exc |-> e, ret |-> <<>>]

\* t.strip().strip(string.punctuation) of a str
clean_token(t) == strip(strip(t, Whitespace), punctuation)

RECURSIVE clean_loop(_, _)
\* the loop of _clean_tokens over what is left of token_list; cleaned is
\* the list built so far.  An element that is no str has no strip().
clean_loop(token_list, cleaned) ==
    IF token_list = <<>> THEN Return(cleaned)
    ELSE IF Head(token_list).t # "str" THEN Raise("AttributeError")
    ELSE LET Keep(cleaned_token) ==
                 IF cleaned_token # <<>> THEN Append(cleaned, cleaned_token)
                 ELSE cleaned
         IN  clean_loop(Tail(token_list), Keep(clean_token(Head(token_list).s)))

\* _clean_tokens(token_list), token_list a sequence of Python values
_clean_tokens(token_list) == clean_loop(token_list, <<>>)

\* a list of str as Python values
StrList(strs) == [i \in 1..Len(strs) |-> PyStr(strs[i])]

\* the except: branch of safe_parse_matched_keywords
split_fallback(s) == _clean_tokens(StrList(split(s)))

\* a faulty variant of safe_parse_matched_keywords, for C10: a decoded tuple
\* is taken for a list, isinstance(parsed_value, (list, tuple))
safe_parse_tuple_as_list(matched_kw) ==
    LET Try(parsed_value, tokens) ==
            IF ~parsed_value.ok THEN tokens
            ELSE IF parsed_value.v.t \in {"list", "tuple"} THEN
                LET Except(r) == IF r.exc # "" THEN tokens ELSE r
                IN  Except(_clean_tokens(parsed_value.v.xs))
            ELSE _clean_tokens(StrList(split(py_str(parsed_value.v))))
        Str(s) ==
            IF s = <<>> THEN Return(<<>>)
            ELSE Try(literal_eval(s), split_fallback(s))
    IN
    IF matched_kw.t = "NoneType" THEN Return(<<>>)
    ELSE IF matched_kw.t = "list" THEN _clean_tokens(matched_kw.xs)
    ELSE IF matched_kw.t = "str" THEN Str(strip(matched_kw.s, Whitespace))
    ELSE Return(<<>>)

\* safe_parse_matched_keywords(matched_kw)
safe_parse_matched_keywords(matched_kw) ==
    LET \* the try block, parsed_value what ast.literal_eval returned or
        \* raised, tokens what the except: branch returns
        Try(parsed_value, tokens) ==
            IF ~parsed_value.ok THEN tokens
            ELSE IF parsed_value.v.t = "list" THEN
                \* the bare except: also catches what _clean_tokens raises
                LET Except(r) == IF r.exc # "" THEN tokens ELSE r
                IN  Except(_clean_tokens(parsed_value.v.xs))
            ELSE _clean_tokens(StrList(split(py_str(parsed_value.v))))
        Str(s) ==
            IF s = <<>> THEN Return(<<>>)
            ELSE Try(literal_eval(s), split_fallback(s))
    IN
    IF matched_kw.t = "NoneType" THEN Return(<<>>)
    ELSE IF matched_kw.t = "list" THEN _clean_tokens(matched_kw.xs)
    ELSE IF matched_kw.t = "str" THEN Str(strip(matched_kw.s, Whitespace))
    ELSE Return(<<>>)

(***************************************************************************)
(* json.loads and json.dumps, for the JSON the model's inputs use:         *)
(* objects, arrays, strings with the escapes \" \\ \/ \n \r \t, integers,  *)
(* null, true and false.  ok = FALSE is json.JSONDecodeError.              *)
(***************************************************************************)
\* the whitespace JSON allows between tokens
JsonBlank == {" ", "\t", "\n", "\r"}

\* the control characters a JSON string may not hold unescaped
JsonControl ==
    {"\t", "\n", "\r", "\f", "U+000B", "U+001C", "U+001D", "U+001E", "U+001F"}

\* d[key] = value of a dict: a key already present keeps its place
dict_set(kv, key, value) ==
    IF \E j \in 1..Len(kv) : kv[j][1] = key
    THEN [j \in 1..Len(kv) |->
             IF kv[j][1] = key THEN <<key, value>> ELSE kv[j]]
    ELSE Append(kv, <<key, value>>)

\* d.get(key, default) of a dict
dict_get(kv, key, default) ==
    IF \E j \in 1..Len(kv) : kv[j][1] = key
    THEN kv[CHOOSE j \in 1..Len(kv) : kv[j][1] = key][2]
    ELSE default

RECURSIVE json_string(_, _, _)
\* the rest of a JSON string from index i; acc is the value read so far
json_string(s, i, acc) ==
    LET c == At(s, i) IN
    IF c = "" \/ c \in JsonControl THEN ParseError
    ELSE IF c = "\"" THEN Parsed(PyStr(acc), i + 1)
    ELSE IF c = "\\"
         THEN LET d == At(s, i + 1) IN
              IF d \in {"\"", "\\", "/"} THEN json_string(s, i + 2, Append(acc, d))
              ELSE IF d = "n" THEN json_string(s, i + 2, Append(acc, "\n"))
              ELSE IF d = "r" THEN json_string(s, i + 2, Append(acc, "\r"))
              ELSE IF d = "t" THEN json_string(s, i + 2, Append(acc, "\t"))
              ELSE ParseError    \* \b \f \uXXXX are not modelled
    ELSE json_string(s, i + 1, Append(acc, c))

\* a JSON integer at index i: 0, or digits that do not start with 0
json_int(s, i) ==
    IF At(s, i) = "0" THEN Parsed(PyInt(0), i + 1)
    ELSE IF IsDigit(At(s, i)) THEN py_digits(s, i, 0)
    ELSE ParseError

RECURSIVE json_value(_, _)
RECURSIVE json_array(_, _, _)
RECURSIVE json_object(_, _, _)

\* one JSON value at index i
json_value(s, i) ==
    LET Object(j) ==
            IF At(s, j) = "}" THEN Parsed(PyDict(<<>>), j + 1)
            ELSE json_object(s, j, <<>>)
        Array(j) ==
            IF At(s, j) = "]" THEN Parsed(PyList(<<>>), j + 1)
            ELSE json_array(s, j, <<>>)
        Negative(r) == IF r.ok THEN Parsed(PyInt(-r.v.n), r.i) ELSE ParseError
        c == At(s, i)
    IN
    IF c = "\"" THEN json_string(s, i + 1, <<>>)
    ELSE IF c = "{" THEN Object(skip_blank(s, i + 1, JsonBlank))
    ELSE IF c = "[" THEN Array(skip_blank(s, i + 1, JsonBlank))
    ELSE IF c = "-" THEN Negative(json_int(s, i + 1))
    ELSE IF IsDigit(c) THEN json_int(s, i)
    ELSE IF StartsAt(s, i, <<"n", "u", "l", "l">>) THEN Parsed(PyNone, i + 4)
    ELSE IF StartsAt(s, i, <<"t", "r", "u", "e">>) THEN Parsed(PyBool(TRUE), i + 4)
    ELSE IF StartsAt(s, i, <<"f", "a", "l", "s", "e">>)
         THEN Parsed(PyBool(FALSE), i + 5)
    ELSE ParseError

\* the elements of an array from index i (at the first character of an
\* element) to the closing bracket
json_array(s, i, acc) ==
    LET Sep(r, k) ==
            IF At(s, k) = "]" THEN Parsed(PyList(Append(acc, r.v)), k + 1)
            ELSE IF At(s, k) = ","
                 THEN json_array(s, skip_blank(s, k + 1, JsonBlank),
                                 Append(acc, r.v))
            ELSE ParseError
        Item(r) ==
            IF ~r.ok THEN ParseError ELSE Sep(r, skip_blank(s, r.i, JsonBlank))
    IN  Item(json_value(s, i))

\* the members of an object from index i (at the quote of a key) to the
\* closing brace
json_object(s, i, acc) ==
    LET Sep(kv, k) ==
            IF At(s, k) = "}" THEN Parsed(PyDict(kv), k + 1)
            ELSE IF At(s, k) = ","
                 THEN json_object(s, skip_blank(s, k + 1, JsonBlank), kv)
            ELSE ParseError
        Member(key, r) ==
            IF ~r.ok THEN ParseError
            ELSE Sep(dict_set(acc, key.v.s, r.v), skip_blank(s, r.i, JsonBlank))
        Colon(key, c) ==
            IF At(s, c) # ":" THEN ParseError
            ELSE Member(key, json_value(s, skip_blank(s, c + 1, JsonBlank)))
        Key(key) ==
            IF ~key.ok THEN ParseError
            ELSE Colon(key, skip_blank(s, key.i, JsonBlank))
    IN  IF At(s, i) # "\"" THEN ParseError
        ELSE Key(json_string(s, i + 1, <<>>))

\* json.loads(s): [ok, v]; ok = FALSE when it raises json.JSONDecodeError
json_loads(s) ==
    LET With(r) ==
            IF r.ok /\ skip_blank(s, r.i, JsonBlank) = Len(s) + 1 THEN r
            ELSE ParseError
    IN  With(json_value(s, skip_blank(s, 1, JsonBlank)))

RECURSIVE json_escape(_)
\* the body of json.dumps(s, ensure_ascii=False) of a str
json_escape(s) ==
    IF s = <<>> THEN <<>>
    ELSE LET c == Head(s)
             e == IF c = "\"" THEN <<"\\", "\"">>
                  ELSE IF c = "\\" THEN <<"\\", "\\">>
                  ELSE IF c = "\n" THEN <<"\\", "n">>
                  ELSE IF c = "\r" THEN <<"\\", "r">>
                  ELSE IF c = "\t" THEN <<"\\", "t">>
                  ELSE IF c = "\f" THEN <<"\\", "f">>
                  ELSE <<c>>
         IN  e \o json_escape(Tail(s))

RECURSIVE json_dumps(_)
RECURSIVE dumps_list(_)
RECURSIVE dumps_dict(_)

\* json.dumps(v, ensure_ascii=False)
json_dumps(v) ==
    CASE v.t = "NoneType" -> <<"n", "u", "l", "l">>
      [] v.t = "bool" -> IF v.b THEN <<"t", "r", "u", "e">>
                         ELSE <<"f", "a", "l", "s", "e">>
      [] v.t = "int" -> int_str(v.n)
      [] v.t = "str" -> <<"\"">> \o json_escape(v.s) \o <<"\"">>
      [] v.t = "list" -> <<"[">> \o dumps_list(v.xs) \o <<"]">>
      [] v.t = "dict" -> <<"{">> \o dumps_dict(v.kv) \o <<"}">>

\* the elements of a list, separated by ", "
dumps_list(xs) ==
    IF xs = <<>> THEN <<>>
    ELSE IF Len(xs) = 1 THEN json_dumps(xs[1])
    ELSE json_dumps(xs[1]) \o <<",", " ">> \o dumps_list(Tail(xs))

\* the items of a dict, "key": value, separated by ", "
dumps_dict(kv) ==
    IF kv = <<>> THEN <<>>
    ELSE <<"\"">> \o json_escape(kv[1][1]) \o <<"\"", ":", " ">>
         \o json_dumps(kv[1][2])
         \o (IF Len(kv) = 1 THEN <<>> ELSE <<",", " ">> \o dumps_dict(Tail(kv)))

(***************************************************************************)
(* The Dual-Set Matcher and the evaluation of one record.                  *)
(***************************************************************************)
KeyMatchedKeywords ==
    <<"m", "a", "t", "c", "h", "e", "d", "_",
      "k", "e", "y", "w", "o", "r", "d", "s">>

KeyTweetText == <<"t", "w", "e", "e", "t", "_", "t", "e", "x", "t">>

\* any(k.lower() in matched_list for k in keywords)
token_match(matched_list, keywords) ==
    \E k \in keywords : list_contains(matched_list, lower(k))

\* any(k.lower() in tweet_txt for k in keywords)
text_match(tweet_txt, keywords) ==
    \E k \in keywords : str_contains(tweet_txt, lower(k))

\* the list with every element lowercased in place
lower_all(matched_list) ==
    [i \in 1..Len(matched_list) |-> lower(matched_list[i])]

\* a faulty variant of token_test, for C2: `or` for `and`, a literal of
\* either set among the tokens is enough
token_test_either_set(script, matched_raw) ==
    LET Match(matched_list) ==
            LET kurdish_match ==
                    token_match(matched_list, kurdish_keywords(script))
                islam_match ==
                    token_match(matched_list, islam_keywords(script))
            IN  kurdish_match \/ islam_match
        With(parsed) ==
            IF parsed.exc # "" THEN Raise(parsed.exc)
            ELSE Return(Match(lower_all(parsed.ret)))
    IN  With(safe_parse_matched_keywords(matched_raw))

\* the token-list test of both scripts, on the raw keyword field:
\* [exc, ret]; ret is whether a literal of each set is among the tokens
token_test(script, matched_raw) ==
    LET Match(matched_list) ==
            LET kurdish_match ==
                    token_match(matched_list, kurdish_keywords(script))
                islam_match ==
                    token_match(matched_list, islam_keywords(script))
            IN  kurdish_match /\ islam_match
        With(parsed) ==
            IF parsed.exc # "" THEN Raise(parsed.exc)
            ELSE Return(Match(lower_all(parsed.ret)))
    IN  With(safe_parse_matched_keywords(matched_raw))

\* the free-text test of filtering_parallel.py, on the tweet_text field:
\* what is not a str has no lower()
text_test(script, text_raw) ==
    LET Match(tweet_txt) ==
            LET kurdish_txt_match ==
                    text_match(tweet_txt, kurdish_keywords(script))
                islam_txt_match ==
                    text_match(tweet_txt, islam_keywords(script))
            IN  kurdish_txt_match /\ islam_txt_match
    IN  IF text_raw.t # "str" THEN Raise("AttributeError")
        ELSE Return(Match(lower(text_raw.s)))

\* check_tweet(line) of filtering_parallel.py: [exc, ret], ret the dict
\* returned, which has a "line" only when it passes
check_tweet(line) ==
    LET Text(text) ==
            IF text.exc # "" THEN Raise(text.exc)
            ELSE IF text.ret THEN Return([pass |-> TRUE, line |-> line])
            ELSE Return([pass |-> FALSE])
        Tokens(tweet, tokens) ==
            IF tokens.exc # "" THEN Raise(tokens.exc)
            ELSE IF tokens.ret THEN Return([pass |-> TRUE, line |-> line])
            ELSE Text(text_test("filtering_parallel",
                                dict_get(tweet.v.kv, KeyTweetText, PyStr(<<>>))))
        Loaded(tweet) ==
            \* except json.JSONDecodeError
            IF ~tweet.ok THEN Return([pass |-> FALSE])
            \* tweet.get of what is not a dict
            ELSE IF tweet.v.t # "dict" THEN Raise("AttributeError")
            ELSE Tokens(tweet,
                        token_test("filtering_parallel",
                                   dict_get(tweet.v.kv, KeyMatchedKeywords, PyNone)))
    IN  Loaded(json_loads(line))

\* one pass of the loop body of filtering.py after the count of the line:
\* [exc, ret], ret = [keep, out], out what is written when keep holds
loop_body(line) ==
    LET Tokens(tweet, tokens) ==
            IF tokens.exc # "" THEN Raise(tokens.exc)
            ELSE IF tokens.ret
                 THEN Return([keep |-> TRUE,
                              out |-> json_dumps(tweet.v) \o <<"\n">>])
            ELSE Return([keep |-> FALSE, out |-> <<>>])
        Loaded(tweet) ==
            \* except json.JSONDecodeError: continue
            IF ~tweet.ok THEN Return([keep |-> FALSE, out |-> <<>>])
            \* tweet.get of what is not a dict
            ELSE IF tweet.v.t # "dict" THEN Raise("AttributeError")
            ELSE Tokens(tweet,
                        token_test("filtering",
                                   dict_get(tweet.v.kv, KeyMatchedKeywords, PyNone)))
    IN  Loaded(json_loads(line))

(***************************************************************************)
(* The input files of the model: up to MaxLines lines of the corpus, each  *)
(* as iterating the file yields it, its line break included.               *)
(***************************************************************************)
\* the first line of the spec's end-to-end example: both sets, in a list literal
\*   {"matched_keywords": "['pkk','islam']"}
LinePkkIslam ==
    <<"{", "\"", "m", "a", "t", "c", "h", "e", "d", "_", "k", "e", "y", "w",
      "o", "r", "d", "s", "\"", ":", " ", "\"", "[", "'", "p", "k", "k", "'",
      ",", "'", "i", "s", "l", "a", "m", "'", "]", "\"", "}", "\n">>

\* its second line: a Set-A literal only
\*   {"matched_keywords": "['pkk']"}
LinePkk ==
    <<"{", "\"", "m", "a", "t", "c", "h", "e", "d", "_", "k", "e", "y", "w",
      "o", "r", "d", "s", "\"", ":", " ", "\"", "[", "'", "p", "k", "k", "'",
      "]", "\"", "}", "\n">>

\* both sets in a JSON list, upper case, no blank after the colon and comma
\*   {"matched_keywords":["PKK","din"]}
LineCompact ==
    <<"{", "\"", "m", "a", "t", "c", "h", "e", "d", "_", "k", "e", "y", "w",
      "o", "r", "d", "s", "\"", ":", "[", "\"", "P", "K", "K", "\"", ",",
      "\"", "d", "i", "n", "\"", "]", "}", "\n">>

\* no keyword field; a literal of each set in the free text
\*   {"tweet_text": "PKK ve Islam"}
LineText ==
    <<"{", "\"", "t", "w", "e", "e", "t", "_", "t", "e", "x", "t", "\"", ":",
      " ", "\"", "P", "K", "K", " ", "v", "e", " ", "I", "s", "l", "a", "m",
      "\"", "}", "\n">>

\* not JSON
\*   {bad
LineMalformed ==
    <<"{", "b", "a", "d", "\n">>

\* JSON, but not an object
\*   [1]
LineArray ==
    <<"[", "1", "]", "\n">>

\* a keyword list whose element is not a string
\*   {"matched_keywords": [1]}
LineNumberList ==
    <<"{", "\"", "m", "a", "t", "c", "h", "e", "d", "_", "k", "e", "y", "w",
      "o", "r", "d", "s", "\"", ":", " ", "[", "1", "]", "}", "\n">>

\* no keyword field and a null free text
\*   {"tweet_text": null}
LineNullText ==
    <<"{", "\"", "t", "w", "e", "e", "t", "_", "t", "e", "x", "t", "\"", ":",
      " ", "n", "u", "l", "l", "}", "\n">>

\* the lines an input file of the model is made of
Corpus ==
    { LinePkkIslam,
      LinePkk,
      LineCompact,
      LineText,
      LineMalformed,
      LineArray,
      LineNumberList,
      LineNullText }

\* the sequences of at most n elements of S
SeqsUpTo(S, n) == UNION {[1..k -> S] : k \in 0..n}

InputFiles == SeqsUpTo(Corpus, MaxLines)

Scripts == {"filtering", "filtering_parallel"}

Workers == 1..NumWorkers


(***************************************************************************)
(* The evaluation of one record, on its own: a line made of a keyword      *)
(* field and a free-text field, or a line of the corpus.                   *)
(***************************************************************************)
\* null:  null
KwNull ==
    <<"n", "u", "l", "l">>

\* a string holding a list literal, both sets:  "['pkk','islam']"
KwListLiteral ==
    <<"\"", "[", "'", "p", "k", "k", "'", ",", "'", "i", "s", "l", "a",
      "m", "'", "]", "\"">>

\* a string holding a list literal, Set A only:  "['pkk']"
KwListLiteralA ==
    <<"\"", "[", "'", "p", "k", "k", "'", "]", "\"">>

\* a JSON list, both sets, upper case:  ["PKK","din"]
KwList ==
    <<"[", "\"", "P", "K", "K", "\"", ",", "\"", "d", "i", "n", "\"", "]">>

\* a JSON list, Set B only:  ["islam"]
KwListB ==
    <<"[", "\"", "i", "s", "l", "a", "m", "\"", "]">>

\* a JSON list whose element is not a string:  [1]
KwNumberList ==
    <<"[", "1", "]">>

\* a string that is no literal: whitespace-separated tokens:  "pkk, Islam."
KwFreeText ==
    <<"\"", "p", "k", "k", ",", " ", "I", "s", "l", "a", "m", ".", "\"">>

\* a string holding a tuple literal; its first element is a two-word literal of Set A:  "('kU+00FCrt sorunu', 'islam')"
KwTuple ==
    <<"\"", "(", "'", "k", "U+00FC", "r", "t", " ", "s", "o", "r", "u",
      "n", "u", "'", ",", " ", "'", "i", "s", "l", "a", "m", "'", ")",
      "\"">>

\* the same two elements as a JSON list:  ["kU+00FCrt sorunu", "islam"]
KwPhraseList ==
    <<"[", "\"", "k", "U+00FC", "r", "t", " ", "s", "o", "r", "u", "n",
      "u", "\"", ",", " ", "\"", "i", "s", "l", "a", "m", "\"", "]">>

\* a number:  5
KwNumber ==
    <<"5">>

\* null:  null
TextNull ==
    <<"n", "u", "l", "l">>

\* a literal of each set, upper case:  "PKK ve Islam"
TextBoth ==
    <<"\"", "P", "K", "K", " ", "v", "e", " ", "I", "s", "l", "a", "m",
      "\"">>

\* Set B only:  "islam"
TextB ==
    <<"\"", "i", "s", "l", "a", "m", "\"">>

\* literals of both sets only inside longer words: apo, din:  "apolitik dinozor"
TextInside ==
    <<"\"", "a", "p", "o", "l", "i", "t", "i", "k", " ", "d", "i", "n",
      "o", "z", "o", "r", "\"">>

\* the JSON texts of the keyword field of a record line; <<>>: no such field
KwFields ==
    { <<>>, KwNull, KwListLiteral, KwListLiteralA, KwList,
      KwListB, KwNumberList, KwFreeText, KwTuple, KwPhraseList, KwNumber }

\* the JSON texts of the free-text field of a record line; <<>>: no such field
TextFields == { <<>>, TextNull, TextBoth, TextB, TextInside }
\* "key": value as a member of a JSON object
Member(key, value) == <<"\"">> \o key \o <<"\"", ":", " ">> \o value

\* the line of the record with these two fields
RecordLine(kw, tx) ==
    <<"{">>
    \o (IF kw = <<>> THEN <<>> ELSE Member(KeyMatchedKeywords, kw))
    \o (IF kw = <<>> \/ tx = <<>> THEN <<>> ELSE <<",", " ">>)
    \o (IF tx = <<>> THEN <<>> ELSE Member(KeyTweetText, tx))
    \o <<"}", "\n">>

RecordLines ==
    Corpus \cup {RecordLine(kw, tx) : kw \in KwFields, tx \in TextFields}

(***************************************************************************)
(* The normalizer, on its own: the keyword field values of every shape.    *)
(***************************************************************************)
\* the characters of a drawn token: a letter, whitespace, punctuation
TokAlphabet == {"a", " ", ","}

RECURSIVE StringsOfLen(_)
StringsOfLen(n) ==
    IF n = 0 THEN {<<>>}
    ELSE {Append(s, c) : s \in StringsOfLen(n - 1), c \in TokAlphabet}

\* the elements of a drawn list that take n characters: the strings of
\* that length and, for one character, the number 1
ElementsOfSize(n) ==
    {PyStr(s) : s \in StringsOfLen(n)} \cup (IF n = 1 THEN {PyInt(1)} ELSE {})

RECURSIVE ListsWithin(_, _)
\* the lists of at most k elements that take at most n characters in all
ListsWithin(k, n) ==
    IF k = 0 \/ n = 0 THEN {<<>>}
    ELSE {<<>>} \cup
         UNION {{<<e>> \o rest : e \in ElementsOfSize(m),
                                 rest \in ListsWithin(k - 1, n - m)} :
                m \in 1..n}

KwLists == ListsWithin(MaxElems, MaxChars)

RECURSIVE join_blank(_)
\* " ".join(str(x) for x in xs)
join_blank(xs) ==
    IF xs = <<>> THEN <<>>
    ELSE IF Len(xs) = 1 THEN py_str(xs[1])
    ELSE py_str(xs[1]) \o <<" ">> \o join_blank(Tail(xs))

\* the strings a producer may have written a token list as: the repr of
\* the list, of the tuple, of its only element, or the tokens side by side
KwStrings ==
    UNION {{py_repr(PyList(xs)), py_repr(PyTuple(xs)), join_blank(xs)}
           \cup (IF Len(xs) = 1 THEN {py_repr(xs[1])} ELSE {}) :
           xs \in KwLists}

\* the values of the keyword field the normalizer is applied to
KwInputs ==
    {PyNone, PyInt(5), PyBool(TRUE), PyDict(<<>>)}
    \cup {PyList(xs) : xs \in KwLists}
    \cup {PyStr(s) : s \in KwStrings}

(***************************************************************************)
(* The state of a run of either script.                                    *)
(***************************************************************************)
VARIABLES
    script,        \* which script runs
    fin,           \* the input file, as its lines
    pos,           \* how many lines of fin have been read
    taskq,         \* the pool's task queue: chunks of line numbers
    busy,          \* the chunk each worker is evaluating, <<>> when idle
    outq,          \* the pool's result queue: one entry per finished chunk
    cur,           \* the results of the chunk the collector is iterating
    fout,          \* the characters written to the output file
    total_tweets,  \* the script's counter
    kept_tweets,   \* the script's counter
    pc,            \* "running", "done", or "aborted" by an exception
    stdout,        \* the two numbers printed at the end, <<>> before
    evals,         \* history: how often check_tweet ran on each line
    yields,        \* history: how many results of each line the loop got
    passed,        \* history: the lines whose result was a pass
    writes         \* history: per write to fout, who wrote and for which line

runVars ==
    <<script, fin, pos, taskq, busy, outq, cur, fout, total_tweets,
      kept_tweets, pc, stdout, evals, yields, passed, writes>>

RunStart ==
    /\ script \in Scripts
    /\ fin \in InputFiles
    /\ pos = 0
    /\ taskq = <<>>
    /\ busy = [w \in Workers |-> <<>>]
    /\ outq = <<>>
    /\ cur = <<>>
    /\ fout = <<>>
    /\ total_tweets = 0
    /\ kept_tweets = 0
    /\ pc = "running"
    /\ stdout = <<>>
    /\ evals = [i \in 1..Len(fin) |-> 0]
    /\ yields = [i \in 1..Len(fin) |-> 0]
    /\ passed = {}
    /\ writes = <<>>

\* the run variables while another specification is checked
RunIdle ==
    /\ script = ""
    /\ fin = <<>>
    /\ pos = 0
    /\ taskq = <<>>
    /\ busy = [w \in Workers |-> <<>>]
    /\ outq = <<>>
    /\ cur = <<>>
    /\ fout = <<>>
    /\ total_tweets = 0
    /\ kept_tweets = 0
    /\ pc = "idle"
    /\ stdout = <<>>
    /\ evals = <<>>
    /\ yields = <<>>
    /\ passed = {}
    /\ writes = <<>>

(***************************************************************************)
(* The state of the evaluation of one record, and of one normalization.    *)
(***************************************************************************)
VARIABLES
    which,     \* the script whose evaluation runs
    line,      \* the input line
    outcome    \* <<>> before the evaluation, then <<[exc, ret]>>

recVars == <<which, line, outcome>>

RecordIdle == which = "" /\ line = <<>> /\ outcome = <<>>

RecordStart ==
    /\ which \in Scripts
    /\ line \in RecordLines
    /\ outcome = <<>>

VARIABLES
    matched_kw,   \* the value of the keyword field
    first,        \* <<>>, then <<[exc, ret]>> of the normalizer on matched_kw
    second        \* <<>>, then <<[exc, ret]>> of the normalizer on first's list

normVars == <<matched_kw, first, second>>

NormIdle == matched_kw = PyNone /\ first = <<>> /\ second = <<>>

NormStart ==
    /\ matched_kw \in KwInputs
    /\ first = <<>>
    /\ second = <<>>

vars == <<runVars, recVars, normVars>>

\* the state a run starts in
Init == RunStart /\ RecordIdle /\ NormIdle

---------------------------------------------------------------------------
(* filtering.py: the loop over the lines of the input file.                *)

\* one iteration of `for line in fin`
LoopStep ==
    /\ script = "filtering"
    /\ pc = "running"
    /\ pos < Len(fin)
    /\ LET Body(r) ==
               /\ pos' = pos + 1
               /\ total_tweets' = total_tweets + 1
               /\ evals' = [evals EXCEPT ![pos + 1] = @ + 1]
               /\ IF r.exc # ""
                  THEN /\ pc' = "aborted"
                       /\ UNCHANGED <<fout, kept_tweets, writes, yields,
                                      passed>>
                  ELSE /\ pc' = pc
                       /\ yields' = [yields EXCEPT ![pos + 1] = @ + 1]
                       /\ IF r.ret.keep
                          THEN /\ fout' = fout \o r.ret.out
                               /\ kept_tweets' = kept_tweets + 1
                               /\ passed' = passed \cup {pos + 1}
                               /\ writes' = Append(writes,
                                      [by |-> "main", idx |-> pos + 1,
                                       text |-> r.ret.out])
                          ELSE UNCHANGED <<fout, kept_tweets, writes, passed>>
       IN  Body(loop_body(fin[pos + 1]))
    /\ UNCHANGED <<script, fin, taskq, busy, outq, cur, stdout>>
    /\ UNCHANGED <<recVars, normVars>>

\* the end of the input: the three print calls
LoopEnd ==
    /\ script = "filtering"
    /\ pc = "running"
    /\ pos = Len(fin)
    /\ stdout' = <<total_tweets, kept_tweets>>
    /\ pc' = "done"
    /\ UNCHANGED <<script, fin, pos, taskq, busy, outq, cur, fout,
                   total_tweets, kept_tweets, evals, yields, passed, writes>>
    /\ UNCHANGED <<recVars, normVars>>

---------------------------------------------------------------------------
(* filtering_parallel.py: Pool.imap_unordered and the collector loop.      *)

Min(a, b) == IF a < b THEN a ELSE b

\* the pool's task thread: the next chunksize lines of fin become a task
Feed ==
    /\ script = "filtering_parallel"
    /\ pc = "running"
    /\ pos < Len(fin)
    /\ LET last == Min(pos + chunksize, Len(fin)) IN
       /\ taskq' = Append(taskq, [k \in 1..(last - pos) |-> pos + k])
       /\ pos' = last
    /\ UNCHANGED <<script, fin, busy, outq, cur, fout, total_tweets,
                   kept_tweets, pc, stdout, evals, yields, passed, writes>>
    /\ UNCHANGED <<recVars, normVars>>

\* an idle worker takes the next task
Take(w) ==
    /\ script = "filtering_parallel"
    /\ pc = "running"
    /\ busy[w] = <<>>
    /\ taskq # <<>>
    /\ busy' = [busy EXCEPT ![w] = Head(taskq)]
    /\ taskq' = Tail(taskq)
    /\ UNCHANGED <<script, fin, pos, outq, cur, fout, total_tweets,
                   kept_tweets, pc, stdout, evals, yields, passed, writes>>
    /\ UNCHANGED <<recVars, normVars>>

\* the first of the results of a chunk that is an exception, 0 if none
FirstRaise(rs) ==
    IF \E k \in 1..Len(rs) : rs[k].exc # ""
    THEN CHOOSE k \in 1..Len(rs) :
            /\ rs[k].exc # ""
            /\ \A j \in 1..(k - 1) : rs[j].exc = ""
    ELSE 0

\* a worker runs list(map(check_tweet, chunk)) and sends what it got: the
\* list of results, or the exception that ended the map
Work(w) ==
    /\ script = "filtering_parallel"
    /\ pc = "running"
    /\ busy[w] # <<>>
    /\ LET chunk == busy[w]
           \* rs: check_tweet on every line of the chunk; bad: where the
           \* map ends by an exception
           Send(rs, bad) ==
               /\ evals' = [i \in 1..Len(fin) |->
                              IF \E k \in 1..Len(chunk) :
                                    /\ chunk[k] = i
                                    /\ bad = 0 \/ k <= bad
                              THEN evals[i] + 1 ELSE evals[i]]
               /\ outq' = Append(outq,
                      IF bad # 0
                      THEN [ok |-> FALSE, res |-> <<>>]
                      ELSE [ok |-> TRUE,
                            res |-> [k \in 1..Len(chunk) |->
                                       [idx |-> chunk[k],
                                        linedct |-> rs[k].ret]]])
           Map(rs) == Send(rs, FirstRaise(rs))
       IN  Map([k \in 1..Len(chunk) |-> check_tweet(fin[chunk[k]])])
    /\ busy' = [busy EXCEPT ![w] = <<>>]
    /\ UNCHANGED <<script, fin, pos, taskq, cur, fout, total_tweets,
                   kept_tweets, pc, stdout, yields, passed, writes>>
    /\ UNCHANGED <<recVars, normVars>>

\* one iteration of `for linedct in p.imap_unordered(...)`: the next result,
\* from the chunk being iterated or else from the next finished chunk
Collect ==
    /\ script = "filtering_parallel"
    /\ pc = "running"
    /\ cur # <<>> \/ (outq # <<>> /\ Head(outq).ok)
    /\ LET Write(idx, text) ==
               /\ fout' = fout \o text
               /\ writes' = Append(writes,
                      [by |-> "main", idx |-> idx, text |-> text])
           Body(idx, linedct) ==
               /\ yields' = [yields EXCEPT ![idx] = @ + 1]
               /\ IF ~linedct.pass
                  THEN \* kept_tweets += 1; continue
                       /\ kept_tweets' = kept_tweets + 1
                       /\ UNCHANGED <<fout, writes, passed>>
                  ELSE \* kept_tweets += 1; the two writes; kept_tweets += 1
                       /\ kept_tweets' = kept_tweets + 2
                       /\ passed' = passed \cup {idx}
                       /\ Write(idx, json_dumps(PyStr(linedct.line)) \o <<"\n">>)
           From(src) ==
               /\ cur' = Tail(src)
               /\ Body(Head(src).idx, Head(src).linedct)
       IN  /\ From(IF cur # <<>> THEN cur ELSE Head(outq).res)
           /\ outq' = IF cur # <<>> THEN outq ELSE Tail(outq)
    /\ UNCHANGED <<script, fin, pos, taskq, busy, total_tweets, pc, stdout,
                   evals>>
    /\ UNCHANGED <<recVars, normVars>>

\* the iterator re-raises in the collector the exception of a failed chunk:
\* the script ends with a traceback
CollectRaise ==
    /\ script = "filtering_parallel"
    /\ pc = "running"
    /\ cur = <<>>
    /\ outq # <<>>
    /\ ~Head(outq).ok
    /\ pc' = "aborted"
    /\ outq' = Tail(outq)
    /\ UNCHANGED <<script, fin, pos, taskq, busy, cur, fout, total_tweets,
                   kept_tweets, stdout, evals, yields, passed, writes>>
    /\ UNCHANGED <<recVars, normVars>>

\* every chunk was consumed: the loop ends and the three print calls run
PoolEnd ==
    /\ script = "filtering_parallel"
    /\ pc = "running"
    /\ pos = Len(fin)
    /\ taskq = <<>>
    /\ \A w \in Workers : busy[w] = <<>>
    /\ outq = <<>>
    /\ cur = <<>>
    /\ stdout' = <<total_tweets, kept_tweets>>
    /\ pc' = "done"
    /\ UNCHANGED <<script, fin, pos, taskq, busy, outq, cur, fout,
                   total_tweets, kept_tweets, evals, yields, passed, writes>>
    /\ UNCHANGED <<recVars, normVars>>

---------------------------------------------------------------------------
(* One record, and one keyword field, on their own.                        *)

\* one record is evaluated by check_tweet of filtering_parallel.py
CheckTweet ==
    /\ which = "filtering_parallel"
    /\ outcome = <<>>
    /\ outcome' = <<check_tweet(line)>>
    /\ UNCHANGED <<which, line, runVars, normVars>>

\* one record is evaluated by the loop body of filtering.py
LoopBody ==
    /\ which = "filtering"
    /\ outcome = <<>>
    /\ outcome' = <<loop_body(line)>>
    /\ UNCHANGED <<which, line, runVars, normVars>>

\* the normalizer is applied to the keyword field
Normalize ==
    /\ first = <<>>
    /\ first' = <<safe_parse_matched_keywords(matched_kw)>>
    /\ UNCHANGED <<matched_kw, second, runVars, recVars>>

\* the normalizer is applied to the token list it returned
Renormalize ==
    /\ first # <<>>
    /\ first[1].exc = ""
    /\ second = <<>>
    /\ second' = <<safe_parse_matched_keywords(PyList(StrList(first[1].ret)))>>
    /\ UNCHANGED <<matched_kw, first, runVars, recVars>>

(***************************************************************************)
(* The specifications.                                                     *)
(***************************************************************************)
\* a run of either script on an input file
Next ==
    \/ LoopStep
    \/ LoopEnd
    \/ Feed
    \/ \E w \in Workers : Take(w)
    \/ \E w \in Workers : Work(w)
    \/ Collect
    \/ CollectRaise
    \/ PoolEnd

Spec == Init /\ [][Next]_vars

\* the evaluation of one record by either script
RecordInit == RunIdle /\ RecordStart /\ NormIdle

RecordNext == CheckTweet \/ LoopBody

SpecRecord == RecordInit /\ [][RecordNext]_vars

\* the normalizer applied to a keyword field, and again to its result
NormInit == RunIdle /\ RecordIdle /\ NormStart

NormNext == Normalize \/ Renormalize

SpecNorm == NormInit /\ [][NormNext]_vars

(***************************************************************************)
(* The properties of the normalizer, checked under SpecNorm.               *)
(***************************************************************************)
\* every element of a sequence of Python values is a str
AllStr(xs) == \A i \in 1..Len(xs) : xs[i].t = "str"

\* the strings of a sequence of str values
Strs(xs) == [i \in 1..Len(xs) |-> xs[i].s]

\* the strings in order, each stripped of surrounding whitespace and then of
\* surrounding punctuation, those left empty dropped
CleanedTokens(strs) ==
    SelectSeq([i \in 1..Len(strs) |-> clean_token(strs[i])],
              LAMBDA t : t # <<>>)

\* the normalizer was applied to a non-empty string
NormalizedString ==
    /\ first # <<>>
    /\ matched_kw.t = "str"
    /\ matched_kw.s # <<>>

\* C6: the normalizer never raises: for every input it returns a list
C6_NeverRaises ==
    first # <<>> => first[1].exc = ""

\* C7: on a list whose elements are all strings, normalizing the result of
\* the normalizer again gives that same result
C7_Idempotent ==
    (second # <<>> /\ matched_kw.t = "list" /\ AllStr(matched_kw.xs))
        => second[1] = first[1]

\* what the three strategies give for the string s, a tuple going the way
\* of a scalar and a list with an element that is no string the way of a
\* failed decoding
DecodedTokens(s) ==
    LET Of(decoded) ==
            IF decoded.ok /\ decoded.v.t = "list" /\ AllStr(decoded.v.xs)
            THEN CleanedTokens(Strs(decoded.v.xs))
            ELSE IF decoded.ok /\ decoded.v.t # "list"
            THEN CleanedTokens(split(py_str(decoded.v)))
            ELSE CleanedTokens(split(s))
    IN  Of(literal_eval(strip(s, Whitespace)))

\* C10: a non-empty string is decoded as a Python literal.  A list of
\* strings gives its elements, cleaned, in order; any other decoded value, a
\* tuple included, gives the cleaned whitespace-split tokens of its printed
\* form; a failed decoding, or a list with an element that is no string,
\* gives the cleaned whitespace-split tokens of the original string
C10_DecodingStrategies ==
    NormalizedString => first[1] = Return(DecodedTokens(matched_kw.s))

\* a string holding a tuple whose element has whitespace inside was
\* normalized: the element came out split
C10_TupleWasSplit ==
    /\ NormalizedString
    /\ LET decoded == literal_eval(strip(matched_kw.s, Whitespace)) IN
       /\ decoded.ok
       /\ decoded.v.t = "tuple"
       /\ decoded.v.xs # <<>>
       /\ AllStr(decoded.v.xs)
       /\ first[1].exc = ""
       /\ first[1].ret # CleanedTokens(Strs(decoded.v.xs))

\* C10 as the specification words it: a list or a tuple gives its elements,
\* cleaned; a scalar that is no sequence gives the cleaned tokens of its
\* printed form; only a failed decoding gives those of the original string
C10_TupleLikeList ==
    NormalizedString =>
        LET Of(decoded) ==
                /\ (decoded.ok /\ decoded.v.t \in {"list", "tuple"}
                        /\ AllStr(decoded.v.xs))
                    => first[1] = Return(CleanedTokens(Strs(decoded.v.xs)))
                /\ (decoded.ok /\ decoded.v.t \notin {"list", "tuple"})
                    => first[1] = Return(CleanedTokens(split(py_str(decoded.v))))
                /\ ~decoded.ok
                    => first[1] = Return(CleanedTokens(split(matched_kw.s)))
        IN  Of(literal_eval(strip(matched_kw.s, Whitespace)))

(***************************************************************************)
(* The properties of the evaluation of one record, checked under           *)
(* SpecRecord.                                                             *)
(***************************************************************************)
\* the record was evaluated and the script keeps it
Kept ==
    /\ outcome # <<>>
    /\ outcome[1].exc = ""
    /\ IF which = "filtering" THEN outcome[1].ret.keep
       ELSE outcome[1].ret.pass

\* the line is a JSON object
IsRecord(l) ==
    LET Of(tweet) == tweet.ok /\ tweet.v.t = "dict"
    IN  Of(json_loads(l))

\* the lowercased tokens of the keyword field of a record, none when the
\* normalizer raises
FieldTokens(l) ==
    LET Of(parsed) == IF parsed.exc = "" THEN lower_all(parsed.ret) ELSE <<>>
    IN  Of(safe_parse_matched_keywords(
               dict_get(json_loads(l).v.kv, KeyMatchedKeywords, PyNone)))

\* the lowercased free text of a record, empty when it is no string
FieldText(l) ==
    LET Of(text) == IF text.t = "str" THEN lower(text.s) ELSE <<>>
    IN  Of(dict_get(json_loads(l).v.kv, KeyTweetText, PyStr(<<>>)))

\* a literal of the set, lowercased, is one of the tokens
InTokens(keywords, l) ==
    \E k \in keywords : \E i \in 1..Len(FieldTokens(l)) :
        FieldTokens(l)[i] = lower(k)

\* a literal of the set, lowercased, is a substring of the free text
InText(keywords, l) ==
    \E k \in keywords : \E i \in 0..Len(FieldText(l)) :
        /\ i + Len(k) <= Len(FieldText(l))
        /\ SubSeq(FieldText(l), i + 1, i + Len(k)) = lower(k)

\* both sets match in the token list
BothInTokens(l) ==
    /\ IsRecord(l)
    /\ InTokens(kurdish_keywords(which), l)
    /\ InTokens(islam_keywords(which), l)

\* both sets match in the free text
BothInText(l) ==
    /\ IsRecord(l)
    /\ InText(kurdish_keywords(which), l)
    /\ InText(islam_keywords(which), l)

\* C2: a record is kept only if a literal of Set A and a literal of Set B
\* both match in the same view of it: both among the tokens, or both in the
\* free text.  One set alone, no match, or one set in the tokens and the
\* other in the text, do not keep it
C2_BothSetsInOneView ==
    Kept => (BothInTokens(line) \/ BothInText(line))

\* a record with Set A among its tokens only and Set B in its text only was
\* evaluated by filtering_parallel.py and is not kept
C2_MixedViewsNotKept ==
    /\ which = "filtering_parallel"
    /\ outcome # <<>>
    /\ outcome[1].exc = ""
    /\ ~outcome[1].ret.pass
    /\ IsRecord(line)
    /\ InTokens(kurdish_keywords(which), line)
    /\ ~InTokens(islam_keywords(which), line)
    /\ InText(islam_keywords(which), line)
    /\ ~InText(kurdish_keywords(which), line)

\* C3: a record is kept if either test passes, the free-text test standing
\* in when the token-list test fails: so is a record whose free text has a
\* literal of both sets and whose keyword field is absent or unusable
C3_KeptIfEitherPasses ==
    (outcome # <<>> /\ (BothInTokens(line) \/ BothInText(line))) => Kept

\* C5: the evaluation of a record absorbs every error the record causes: it
\* ends with a decision, never with an exception
C5_ErrorsAbsorbed ==
    outcome # <<>> => outcome[1].exc = ""

(***************************************************************************)
(* The properties of a run, checked under Spec.                            *)
(***************************************************************************)
RECURSIVE readlines(_, _, _)
\* the lines of a file, each with its line break; cur is the line being
\* read and acc the lines read so far
readlines(content, curline, acc) ==
    IF content = <<>>
    THEN (IF curline = <<>> THEN acc ELSE Append(acc, curline))
    ELSE IF Head(content) = "\n"
    THEN readlines(Tail(content), <<>>, Append(acc, Append(curline, "\n")))
    ELSE readlines(Tail(content), Append(curline, Head(content)), acc)

\* how many times x is in the sequence
Count(x, xs) == Cardinality({i \in 1..Len(xs) : xs[i] = x})

\* two sequences have the same elements, each as many times
SameMultiset(xs, ys) ==
    /\ Len(xs) = Len(ys)
    /\ \A i \in 1..Len(xs) : Count(xs[i], xs) = Count(xs[i], ys)

RECURSIVE Select(_, _)
\* the lines of the input whose number is in the set, in input order
Select(idxs, n) ==
    IF n = 0 THEN <<>>
    ELSE IF n \in idxs THEN Append(Select(idxs, n - 1), fin[n])
    ELSE Select(idxs, n - 1)

\* the run is over: the summary was printed, or an exception ended it
Ended == pc \in {"done", "aborted"}

\* the script's decision on a line is to keep it
line_passes(l) ==
    IF script = "filtering"
    THEN LET Of(r) == r.exc = "" /\ r.ret.keep IN Of(loop_body(l))
    ELSE LET Of(r) == r.exc = "" /\ r.ret.pass IN Of(check_tweet(l))

\* the numbers of the input lines the script's decision keeps
PassingLines == {i \in 1..Len(fin) : line_passes(fin[i])}

\* C1: after a complete run the output file holds, one per line, a copy of
\* every input line whose evaluation passed and nothing else, each output
\* line equal character for character to the input line it copies
C1_OutputIsUnmodifiedCopies ==
    pc = "done" =>
        SameMultiset(readlines(fout, <<>>, <<>>), Select(passed, Len(fin)))

\* C4: a line that is no JSON is not kept and does not end the run: every
\* valid line after it is still evaluated and, if it passes, written
C4_MalformedLineSkipped ==
    Ended =>
        \A i \in 1..Len(fin) :
            ~json_loads(fin[i]).ok =>
                /\ \A k \in 1..Len(writes) : writes[k].idx # i
                /\ \A j \in (i + 1)..Len(fin) :
                       json_loads(fin[j]).ok =>
                           /\ evals[j] = 1
                           /\ line_passes(fin[j]) =>
                                  \E k \in 1..Len(writes) : writes[k].idx = j

\* C8: in filtering_parallel.py, whatever the interleaving of the workers
\* and the order the results come in, every input line is evaluated once
\* and gives one result, only the collector writes, and the lines written
\* are, as a multiset, the input lines that pass
C8_EachLineOnce ==
    script = "filtering_parallel" =>
        /\ \A i \in 1..Len(fin) : evals[i] <= 1 /\ yields[i] <= 1
        /\ \A k \in 1..Len(writes) : writes[k].by = "main"
        /\ Ended =>
               /\ \A i \in 1..Len(fin) : evals[i] = 1 /\ yields[i] = 1
               /\ SameMultiset(readlines(fout, <<>>, <<>>),
                               Select(PassingLines, Len(fin)))

\* C9: the summary reports as total the number of input lines processed,
\* the malformed ones included, and as kept the number of records written
C9_SummaryCounts ==
    pc = "done" => stdout = <<Len(fin), Len(writes)>>
====
